---- MODULE Spec2Model ----
(***************************************************************************)
(* Model of the ShopSmart ETL run (src/main.py): DataFactory reads the two *)
(* source files, ETLOrchestrator derives the cleaned catalog, the          *)
(* reconciled join, the three dimensions and the sale fact, and load()     *)
(* replaces the four destination tables one after the other.               *)
(*                                                                         *)
(* A data frame is a sequence of records (row order is kept).  A cell that *)
(* pandas holds as NaN/None/NaT is the empty tuple NaN; a present value v  *)
(* is the one-element tuple <<v>>.  Identifiers and prices are integers so *)
(* that sorting is defined; a raw catalog price is the text of a CSV cell. *)
(***************************************************************************)
EXTENDS Integers, Sequences, FiniteSets, TLC

VARIABLES txFile, prodFile, txStatus, prodStatus, db, pc, log, raised, err, frames

vars == <<txFile, prodFile, txStatus, prodStatus, db, pc, log, raised, err, frames>>

----------------------------------------------------------------------------
(* Bounds of the model *)

MaxTx == 2
MaxProdRows == 2
MaxLoadRows == 1

(* Value domains the inputs are drawn from *)
ProductIds == {1, 2}
NameCells == {<<>>, <<"Widget">>}
CategoryCells == {<<"A">>, <<"B">>}
PriceCells == {"abc", "-5", "0", "7"}
TxProductIds == {2, 3}
TxPrices == {<<>>, <<3>>, <<9>>}
CustomerCells == {<<>>, <<1>>}
Quantities == {1, 2}
SlotsPerDay == 2
NumDays == 3
Timestamps == 0..(NumDays * SlotsPerDay - 1)
FileStatuses == {"ok", "missing", "malformed"}

----------------------------------------------------------------------------
(* Cells *)

NaN == <<>>

isna(x) == x = NaN

(* pd.to_numeric(errors='coerce') on the text of a CSV cell: text that is   *)
(* not a number becomes NaN.                                                *)
to_numeric(cell) ==
    CASE cell = "-5" -> <<-5>>
      [] cell = "0" -> <<0>>
      [] cell = "3" -> <<3>>
      [] cell = "7" -> <<7>>
      [] OTHER -> NaN

(* an invalid price clamped to zero instead of nullified *)
nullify_clamp_zero(x) == IF isna(x) THEN NaN ELSE IF x[1] >= 0 THEN x ELSE <<0>>

(* lambda x: x if x >= 0 else None; a comparison with NaN is False *)
nullify_invalid(x) == IF ~isna(x) /\ x[1] >= 0 THEN x ELSE NaN

(* fillna('Unknown Product') *)
fillna_name(x) == IF isna(x) THEN <<"Unknown Product">> ELSE x

----------------------------------------------------------------------------
(* Product Cleaner: ETLOrchestrator.product_catalog_df *)

(* keep='last' instead of keep='first' *)
drop_duplicates_keep_last(df) ==
    LET F[i \in 0..Len(df)] ==
            IF i = 0 THEN <<>>
            ELSE IF \E j \in (i+1)..Len(df) : df[j].product_id = df[i].product_id
                 THEN F[i-1]
                 ELSE Append(F[i-1], df[i])
    IN  F[Len(df)]

(* df.drop_duplicates(subset='product_id', keep='first') *)
drop_duplicates_product_id(df) ==
    LET F[i \in 0..Len(df)] ==
            IF i = 0 THEN <<>>
            ELSE IF \E j \in 1..(i-1) : df[j].product_id = df[i].product_id
                 THEN F[i-1]
                 ELSE Append(F[i-1], df[i])
    IN  F[Len(df)]

product_catalog_df(raw) ==
    LET d == drop_duplicates_product_id(raw)
    IN  [i \in 1..Len(d) |->
            [product_id   |-> d[i].product_id,
             product_name |-> fillna_name(d[i].product_name),
             category     |-> d[i].category,
             price        |-> nullify_invalid(to_numeric(d[i].price))]]

----------------------------------------------------------------------------
(* Generic data-frame helpers *)

RECURSIVE SortedSeq(_)
SortedSeq(S) ==
    IF S = {} THEN <<>>
    ELSE LET m == CHOOSE x \in S : \A y \in S : x <= y
         IN  <<m>> \o SortedSeq(S \ {m})

RECURSIVE Flatten(_)
Flatten(ss) == IF ss = <<>> THEN <<>> ELSE Head(ss) \o Flatten(Tail(ss))

(* df.drop_duplicates(subset=...), keep='first'; subset[i] holds the cells *)
(* of row i in the subset columns; NaN cells compare equal.                *)
drop_duplicates(df, subset) ==
    LET F[i \in 0..Len(df)] ==
            IF i = 0 THEN <<>>
            ELSE IF \E j \in 1..(i-1) : subset[j] = subset[i]
                 THEN F[i-1]
                 ELSE Append(F[i-1], df[i])
    IN  F[Len(df)]

----------------------------------------------------------------------------
(* Reconciler: ETLOrchestrator.transaction_product_joined_df *)

KeysOf(df) == {df[i].product_id : i \in 1..Len(df)}

(* One row of df.merge(tx, how=..., on='product_id'); l and r are the      *)
(* catalog and the transaction row, or NaN on the side that has no match.  *)
MergedRow(k, l, r) ==
    [product_id     |-> k,
     product_name   |-> IF isna(l) THEN NaN ELSE l[1].product_name,
     category       |-> IF isna(l) THEN NaN ELSE l[1].category,
     price_x        |-> IF isna(l) THEN NaN ELSE l[1].price,
     transaction_id |-> IF isna(r) THEN NaN ELSE <<r[1].transaction_id>>,
     customer_id    |-> IF isna(r) THEN NaN ELSE r[1].customer_id,
     timestamp      |-> IF isna(r) THEN NaN ELSE <<r[1].timestamp>>,
     quantity       |-> IF isna(r) THEN NaN ELSE <<r[1].quantity>>,
     price_y        |-> IF isna(r) THEN NaN ELSE r[1].price]

MergeRowsFor(k, left, right) ==
    LET L == SelectSeq(left, LAMBDA x : x.product_id = k)
        R == SelectSeq(right, LAMBDA x : x.product_id = k)
    IN  IF L = <<>> THEN [j \in 1..Len(R) |-> MergedRow(k, NaN, <<R[j]>>)]
        ELSE IF R = <<>> THEN [i \in 1..Len(L) |-> MergedRow(k, <<L[i]>>, NaN)]
        ELSE Flatten([i \in 1..Len(L) |->
                        [j \in 1..Len(R) |-> MergedRow(k, <<L[i]>>, <<R[j]>>)]])

(* how='outer': the keys of both sides, in sorted order; a key of one side *)
(* only gives rows whose other side is NaN.                                *)
merge_outer(left, right) ==
    LET keys == SortedSeq(KeysOf(left) \cup KeysOf(right))
    IN  Flatten([n \in 1..Len(keys) |-> MergeRowsFor(keys[n], left, right)])

(* a.combine_first(b): a where a is present, else b *)
combine_first(a, b) == IF ~isna(a) THEN a ELSE b

(* merged_df['price'] = merged_df['price_x'].combine_first(merged_df['price_y']) *)
effective_price(row) == combine_first(row.price_x, row.price_y)

transaction_product_joined_df(catalog, tx) ==
    LET m == merge_outer(catalog, tx)
    IN  [i \in 1..Len(m) |->
            [product_id     |-> m[i].product_id,
             product_name   |-> m[i].product_name,
             category       |-> m[i].category,
             price_x        |-> m[i].price_x,
             transaction_id |-> m[i].transaction_id,
             customer_id    |-> m[i].customer_id,
             timestamp      |-> m[i].timestamp,
             quantity       |-> m[i].quantity,
             price_y        |-> m[i].price_y,
             price          |-> effective_price(m[i])]]

----------------------------------------------------------------------------
(* Dimension Builders *)

(* ETLOrchestrator.dim_customer_df *)
dim_customer_df(tx) ==
    LET df == [i \in 1..Len(tx) |-> [customer_id |-> tx[i].customer_id]]
    IN  drop_duplicates(df, [i \in 1..Len(df) |-> df[i].customer_id])

(* a sorts no later than b under ascending=False; NaN sorts last *)
PriceGe(a, b) == isna(b) \/ (~isna(a) /\ a[1] >= b[1])

(* sort_values(by="price", ascending=False).  Rows of equal price keep     *)
(* their order here; pandas leaves their order open, and they differ in no *)
(* column that the de-duplication afterwards looks at.                     *)
RECURSIVE sort_values_price_desc(_)
sort_values_price_desc(s) ==
    IF s = <<>> THEN <<>>
    ELSE LET Maximal(i) == \A j \in 1..Len(s) : PriceGe(s[i].price, s[j].price)
             i == CHOOSE n \in 1..Len(s) :
                     Maximal(n) /\ \A j \in 1..(n-1) : ~Maximal(j)
             rest == [n \in 1..(Len(s)-1) |-> IF n < i THEN s[n] ELSE s[n+1]]
         IN  <<s[i]>> \o sort_values_price_desc(rest)

(* a subset that also names the price *)
ProductDedupKeyWithPrice(r) == <<r.product_id, r.product_name, r.category, r.price>>

(* subset=["product_id", "product_name", "category"] *)
ProductDedupKey(r) == <<r.product_id, r.product_name, r.category>>

(* ETLOrchestrator.dim_product_df *)
dim_product_df(joined) ==
    LET sel == [i \in 1..Len(joined) |->
                   [product_id   |-> joined[i].product_id,
                    product_name |-> joined[i].product_name,
                    category     |-> joined[i].category,
                    price        |-> joined[i].price]]
        sorted == sort_values_price_desc(sel)
    IN  drop_duplicates(sorted, [i \in 1..Len(sorted) |-> ProductDedupKey(sorted[i])])

(* Timestamp.dt.date: a timestamp counts time slots, SlotsPerDay to a day  *)
date_of(ts) == ts \div SlotsPerDay

(* The calendar: day number 0 is 2024-01-30 *)
DaysInMonth(y, m) ==
    IF m = 2 THEN (IF y % 4 = 0 /\ (y % 100 # 0 \/ y % 400 = 0) THEN 29 ELSE 28)
    ELSE IF m \in {4, 6, 9, 11} THEN 30 ELSE 31

NextDay(c) ==
    IF c.day < DaysInMonth(c.year, c.month)
    THEN [c EXCEPT !.day = c.day + 1]
    ELSE IF c.month < 12
    THEN [year |-> c.year, month |-> c.month + 1, day |-> 1]
    ELSE [year |-> c.year + 1, month |-> 1, day |-> 1]

RECURSIVE Calendar(_)
Calendar(d) ==
    IF d = 0 THEN [year |-> 2024, month |-> 1, day |-> 30]
    ELSE NextDay(Calendar(d - 1))

SeqMin(S) == CHOOSE x \in S : \A y \in S : x <= y
SeqMax(S) == CHOOSE x \in S : \A y \in S : x >= y

(* pd.date_range(start, end), freq='D': start, start + 1 day, ... while    *)
(* the value is <= end; the time of day of start is kept.                  *)
date_range(start, end) ==
    [k \in 1..((end - start) \div SlotsPerDay + 1) |->
        start + (k - 1) * SlotsPerDay]

(* ETLOrchestrator.dim_time_df; tx is not empty *)
dim_time_df(tx) ==
    LET stamps == {tx[i].timestamp : i \in 1..Len(tx)}
        min_dt == SeqMin(stamps)
        max_dt == SeqMax(stamps)
        dt_range == date_range(min_dt, max_dt)
        dated == [i \in 1..Len(dt_range) |->
                     [timestamp |-> dt_range[i], date |-> date_of(dt_range[i])]]
        date_df == drop_duplicates(dated, [i \in 1..Len(dated) |-> dated[i].date])
    IN  [i \in 1..Len(date_df) |->
            [date  |-> date_df[i].date,
             year  |-> Calendar(date_of(date_df[i].timestamp)).year,
             month |-> Calendar(date_of(date_df[i].timestamp)).month,
             day   |-> Calendar(date_of(date_df[i].timestamp)).day]]

----------------------------------------------------------------------------
(* Fact Builder: ETLOrchestrator.fact_sale_df *)

(* df['quantity'] * df['price']: NaN when the price is NaN *)
mul(q, p) == IF isna(p) THEN NaN ELSE <<q * p[1]>>

(* the group key of a row: date, transaction_id, customer_id, product_id *)
GroupKey(r) == <<r.date, r.transaction_id, r.customer_id, r.product_id>>

(* groupby(...) with the default dropna=True leaves out a row with a NaN key *)
KeyComplete(r) == ~isna(r.customer_id)

LexLe(a, b) ==
    \/ a[1] < b[1]
    \/ a[1] = b[1] /\ a[2] < b[2]
    \/ a[1] = b[1] /\ a[2] = b[2] /\ a[3][1] < b[3][1]
    \/ a[1] = b[1] /\ a[2] = b[2] /\ a[3] = b[3] /\ a[4] <= b[4]

(* groupby(...) with the default sort=True orders the groups by key *)
RECURSIVE SortedKeys(_)
SortedKeys(S) ==
    IF S = {} THEN <<>>
    ELSE LET m == CHOOSE x \in S : \A y \in S : LexLe(x, y)
         IN  <<m>> \o SortedKeys(S \ {m})

(* agg 'first': the first value of the group that is not NaN *)
agg_first(col) ==
    LET present == SelectSeq(col, LAMBDA x : ~isna(x))
    IN  IF present = <<>> THEN NaN ELSE present[1]

(* agg 'sum': NaN is skipped, the sum of nothing is 0 *)
RECURSIVE agg_sum(_)
agg_sum(col) ==
    IF col = <<>> THEN 0
    ELSE (IF isna(Head(col)) THEN 0 ELSE Head(col)[1]) + agg_sum(Tail(col))

fact_sale_df(tx) ==
    LET df == [i \in 1..Len(tx) |->
                  [date           |-> date_of(tx[i].timestamp),
                   transaction_id |-> tx[i].transaction_id,
                   customer_id    |-> tx[i].customer_id,
                   product_id     |-> tx[i].product_id,
                   quantity       |-> tx[i].quantity,
                   price          |-> tx[i].price,
                   total_sales    |-> mul(tx[i].quantity, tx[i].price)]]
        kept == SelectSeq(df, KeyComplete)
        keys == SortedKeys({GroupKey(kept[i]) : i \in 1..Len(kept)})
        Group(k) == SelectSeq(kept, LAMBDA r : GroupKey(r) = k)
        Col(g, f(_)) == [i \in 1..Len(g) |-> f(g[i])]
    IN  [n \in 1..Len(keys) |->
            [date           |-> keys[n][1],
             transaction_id |-> keys[n][2],
             customer_id    |-> keys[n][3],
             product_id     |-> keys[n][4],
             price          |-> agg_first(Col(Group(keys[n]), LAMBDA r : r.price)),
             quantity       |-> agg_sum(Col(Group(keys[n]), LAMBDA r : <<r.quantity>>)),
             total_sales    |-> agg_sum(Col(Group(keys[n]), LAMBDA r : r.total_sales))]]

----------------------------------------------------------------------------
(* Source Readers: DataFactory.  A result is [exc, none, df]: exc names the *)
(* exception that leaves the reader ("" when none does), none says that    *)
(* the reader returned None.                                               *)

Returned(df) == [exc |-> "", none |-> FALSE, df |-> df]
ReturnedNone == [exc |-> "", none |-> TRUE, df |-> <<>>]
Raised(e) == [exc |-> e, none |-> FALSE, df |-> <<>>]

(* DataFactory.customer_transaction: an IOError is printed and None comes  *)
(* back; a parse error is no IOError and leaves the reader; a file with no *)
(* record has no 'timestamp' column, and df['timestamp'] raises KeyError.  *)
customer_transaction(status, file) ==
    IF status = "missing" THEN ReturnedNone
    ELSE IF status = "malformed" THEN Raised("ValueError")
    ELSE IF file = <<>> THEN Raised("KeyError")
    ELSE Returned(file)

(* DataFactory.product_catalog *)
product_catalog(status, file) ==
    IF status = "missing" THEN ReturnedNone
    ELSE IF status = "malformed" THEN Raised("ValueError")
    ELSE Returned(file)

----------------------------------------------------------------------------
(* The statements of load().  Evaluating the data frame of a statement     *)
(* gives [exc, df, reads, catalog, joined]: reads are the source reads it  *)
(* made, in order; catalog and joined are the intermediate frames.         *)

Evaluated(exc, df, reads, catalog, joined) ==
    [exc |-> exc, df |-> df, reads |-> reads, catalog |-> catalog, joined |-> joined]

(* self.dim_customer_df: None[['customer_id']] raises TypeError *)
EvalCustomer ==
    LET t == customer_transaction(txStatus, txFile)
        reads == <<"read_transaction">>
    IN  IF t.exc # "" THEN Evaluated(t.exc, <<>>, reads, frames.catalog, frames.joined)
        ELSE IF t.none THEN Evaluated("TypeError", <<>>, reads, frames.catalog, frames.joined)
        ELSE Evaluated("", dim_customer_df(t.df), reads, frames.catalog, frames.joined)

(* self.dim_product_df: the catalog is read and cleaned first (None has no *)
(* attribute 'duplicated'), then the transactions are read for the merge.  *)
EvalProduct ==
    LET p == product_catalog(prodStatus, prodFile)
        t == customer_transaction(txStatus, txFile)
        r1 == <<"read_product">>
        r2 == <<"read_product", "read_transaction">>
    IN  IF p.exc # "" THEN Evaluated(p.exc, <<>>, r1, frames.catalog, frames.joined)
        ELSE IF p.none THEN Evaluated("AttributeError", <<>>, r1, frames.catalog, frames.joined)
        ELSE LET catalog == product_catalog_df(p.df)
             IN  IF t.exc # "" THEN Evaluated(t.exc, <<>>, r2, catalog, frames.joined)
                 ELSE IF t.none THEN Evaluated("TypeError", <<>>, r2, catalog, frames.joined)
                 ELSE LET joined == transaction_product_joined_df(catalog, t.df)
                      IN  Evaluated("", dim_product_df(joined), r2, catalog, joined)

(* self.dim_time_df *)
EvalTime ==
    LET t == customer_transaction(txStatus, txFile)
        reads == <<"read_transaction">>
    IN  IF t.exc # "" THEN Evaluated(t.exc, <<>>, reads, frames.catalog, frames.joined)
        ELSE IF t.none THEN Evaluated("TypeError", <<>>, reads, frames.catalog, frames.joined)
        ELSE Evaluated("", dim_time_df(t.df), reads, frames.catalog, frames.joined)

(* self.fact_sale_df: None has no attribute 'copy' *)
EvalSale ==
    LET t == customer_transaction(txStatus, txFile)
        reads == <<"read_transaction">>
    IN  IF t.exc # "" THEN Evaluated(t.exc, <<>>, reads, frames.catalog, frames.joined)
        ELSE IF t.none THEN Evaluated("AttributeError", <<>>, reads, frames.catalog, frames.joined)
        ELSE Evaluated("", fact_sale_df(t.df), reads, frames.catalog, frames.joined)

----------------------------------------------------------------------------
(* Loader: ETLOrchestrator.load and main *)

Tables == {"customer", "product", "time", "sale"}

(* the order of the four to_sql statements *)
TableOrder == <<"customer", "product", "time", "sale">>

Position(t) == CHOOSE k \in 1..Len(TableOrder) : TableOrder[k] = t

AfterStatement(t) ==
    IF Position(t) < Len(TableOrder) THEN TableOrder[Position(t) + 1] ELSE "loaded"

(* the contents a table has before the run *)
Prior == [gen |-> 0, rows |-> <<>>]

Replaced(rows) == [gen |-> 1, rows |-> rows]

NoError == [at |-> "", exc |-> ""]

(* except IOError, as the readers have it *)
CatchesIOErrorOnly(e) == e = "IOError"

(* except Exception *)
Catches(e) ==
    e \in {"IOError", "TypeError", "AttributeError", "KeyError", "ValueError",
           "OperationalError"}

(* An exception e leaves the statement at `where`: load() logs it and      *)
(* returns, or it reaches main, which logs it and raises it again.         *)
Throw(where, e) ==
    /\ err' = [at |-> where, exc |-> e]
    /\ pc' = IF Catches(e) THEN "caught" ELSE "crashed"
    /\ raised' = ~Catches(e)

(* df.to_sql(t, con=connection, if_exists="replace", index=False) after    *)
(* the frame of the statement was evaluated.                               *)
Statement(t, ev) ==
    /\ pc = t
    /\ frames' = [catalog |-> ev.catalog, joined |-> ev.joined]
    /\ UNCHANGED <<txFile, prodFile, txStatus, prodStatus>>
    /\ IF ev.exc # ""
       THEN /\ Throw(t, ev.exc)
            /\ log' = log \o ev.reads
            /\ UNCHANGED db
       ELSE \E written \in BOOLEAN :
                IF written
                THEN /\ db' = [db EXCEPT ![t] = Replaced(ev.df)]
                     /\ log' = log \o ev.reads \o <<"write_" \o t>>
                     /\ pc' = AfterStatement(t)
                     /\ UNCHANGED <<err, raised>>
                ELSE /\ Throw(t, "OperationalError")
                     /\ log' = log \o ev.reads
                     /\ UNCHANGED db

(* sa.create_engine(...); engine.connect() *)
Connect ==
    /\ pc = "start"
    /\ UNCHANGED <<txFile, prodFile, txStatus, prodStatus, db, log, frames>>
    /\ \E connected \in BOOLEAN :
            IF connected
            THEN pc' = TableOrder[1] /\ UNCHANGED <<err, raised>>
            ELSE Throw("connect", "OperationalError")

WriteCustomer == Statement("customer", EvalCustomer)

WriteProduct == Statement("product", EvalProduct)

WriteTime == Statement("time", EvalTime)

WriteSale == Statement("sale", EvalSale)

(* load() returns to main, which logs the completion *)
MainComplete ==
    /\ pc \in {"loaded", "caught"}
    /\ pc' = "done"
    /\ UNCHANGED <<txFile, prodFile, txStatus, prodStatus, db, log, raised, frames, err>>

Next ==
    \/ Connect
    \/ WriteCustomer
    \/ WriteProduct
    \/ WriteTime
    \/ WriteSale
    \/ MainComplete

----------------------------------------------------------------------------
(* Initial states *)

SeqsUpTo(S, n) == UNION {[1..k -> S] : k \in 0..n}

TxRows(pids, prices, customers, quantities, stamps) ==
    [transaction_id : {1}, customer_id : customers, product_id : pids,
     timestamp : stamps, quantity : quantities, price : prices]

ProductRows(pids, names, categories, prices) ==
    [product_id : pids, product_name : names, category : categories, price : prices]

InitRun(txFiles, prodFiles, statuses) ==
    /\ txFile \in txFiles
    /\ prodFile \in prodFiles
    /\ txStatus \in statuses
    /\ prodStatus \in statuses
    /\ db = [t \in Tables |-> Prior]
    /\ pc = "start"
    /\ log = <<>>
    /\ raised = FALSE
    /\ err = NoError
    /\ frames = [catalog |-> <<>>, joined |-> <<>>]

(* a run over small files, each source readable, missing or malformed *)
Init ==
    InitRun(SeqsUpTo(TxRows({2}, {<<3>>}, {<<1>>}, {1}, {0, 3}), MaxLoadRows),
            SeqsUpTo(ProductRows(ProductIds, {<<"Widget">>}, {<<"A">>}, {"7"}), MaxLoadRows),
            FileStatuses)

Spec == Init /\ [][Next]_vars

(* every raw catalog up to MaxProdRows rows, one transaction *)
InitCatalog ==
    InitRun({<<[transaction_id |-> 1, customer_id |-> <<1>>, product_id |-> 2,
                timestamp |-> 0, quantity |-> 1, price |-> <<3>>]>>},
            SeqsUpTo(ProductRows(ProductIds, NameCells, CategoryCells, PriceCells),
                     MaxProdRows),
            {"ok"})

SpecCatalog == InitCatalog /\ [][Next]_vars

(* catalogs and transactions whose product ids overlap in part *)
InitJoin ==
    InitRun(SeqsUpTo(TxRows(TxProductIds, TxPrices, {<<1>>}, {1}, {0}), MaxTx),
            SeqsUpTo(ProductRows(ProductIds, {<<"Widget">>}, {<<"A">>}, {"abc", "7"}),
                     MaxProdRows),
            {"ok"})

SpecJoin == InitJoin /\ [][Next]_vars

(* every transaction file up to MaxTx rows, one catalog row *)
InitTx ==
    InitRun(SeqsUpTo(TxRows({2}, TxPrices, CustomerCells, Quantities, Timestamps), MaxTx),
            {<<[product_id |-> 2, product_name |-> <<"Widget">>, category |-> <<"A">>,
                price |-> "7"]>>},
            {"ok"})

SpecTx == InitTx /\ [][Next]_vars

----------------------------------------------------------------------------
(* Properties *)

IsRead(e) == e \in {"read_transaction", "read_product"}
IsWrite(e) == e \in {"write_customer", "write_product", "write_time", "write_sale"}

RECURSIVE SumSeq(_)
SumSeq(q) == IF q = <<>> THEN 0 ELSE Head(q) + SumSeq(Tail(q))

(* the product statement has cleaned the catalog *)
CatalogComputed ==
    prodStatus = "ok" /\ \E i \in 1..Len(log) : log[i] = "read_product"

(* the product statement has joined the catalog and the transactions *)
JoinComputed ==
    /\ CatalogComputed
    /\ customer_transaction(txStatus, txFile) = Returned(txFile)

RawProductIds == {prodFile[i].product_id : i \in 1..Len(prodFile)}

FirstRawProduct(pid) ==
    prodFile[CHOOSE i \in 1..Len(prodFile) :
                /\ prodFile[i].product_id = pid
                /\ \A j \in 1..(i-1) : prodFile[j].product_id # pid]

CatalogRowsOf(pid) ==
    {j \in 1..Len(frames.catalog) : frames.catalog[j].product_id = pid}

(* C1 (as claimed): in every reconciled row that has a transaction price   *)
(* (price_y, the right side of the merge) and a catalog price (price_x,    *)
(* the left side), the effective price is the transaction price; the       *)
(* catalog price is used only when the transaction price is absent.        *)
C1_TransactionPriceWins ==
    JoinComputed =>
        \A i \in 1..Len(frames.joined) :
            LET row == frames.joined[i]
            IN  /\ ~isna(row.price_y) => row.price = row.price_y
                /\ isna(row.price_y) => row.price = row.price_x

(* C2 (as claimed): once the time table is written, it holds every date    *)
(* from the date of the earliest to the date of the latest transaction     *)
(* timestamp, each exactly once, whatever the times of day.                *)
C2_TimeCoversEveryDate ==
    db["time"].gen = 1 =>
        LET stamps == {txFile[i].timestamp : i \in 1..Len(txFile)}
            minDate == date_of(SeqMin(stamps))
            maxDate == date_of(SeqMax(stamps))
            rows == db["time"].rows
        IN  /\ Len(rows) = maxDate - minDate + 1
            /\ \A d \in minDate..maxDate :
                   Cardinality({i \in 1..Len(rows) : rows[i].date = d}) = 1

(* C3 (as claimed): when a source file cannot be read, none of the four    *)
(* tables is replaced.                                                     *)
C3_NoTableReplacedWhenSourceUnreadable ==
    (txStatus # "ok" \/ prodStatus # "ok") =>
        \A t \in Tables : db[t] = Prior

(* C4: the tables are written in the order customer, product, time, sale;  *)
(* a failure of the k-th statement is caught in load(): no exception       *)
(* reaches main, the tables before k hold the new contents, the k-th and   *)
(* the later tables keep their prior contents.                             *)
C4_WriteFailureCaught ==
    /\ \E n \in 0..4 :
           SelectSeq(log, IsWrite) =
               SubSeq(<<"write_customer", "write_product", "write_time", "write_sale">>, 1, n)
    /\ \A k \in 1..4 :
           LET order == <<"customer", "product", "time", "sale">>
           IN  err.at = order[k] =>
                   /\ ~raised
                   /\ pc \in {"caught", "done"}
                   /\ \A j \in 1..(k-1) : db[order[j]].gen = 1
                   /\ \A j \in k..4 : db[order[j]] = Prior

C4_Witness ==
    /\ err = [at |-> "time", exc |-> "OperationalError"]
    /\ pc = "done"
    /\ db["customer"].gen = 1
    /\ db["product"].gen = 1
    /\ db["time"] = Prior
    /\ db["sale"] = Prior

(* C5: the cleaned catalog has exactly one row per distinct product_id of  *)
(* the raw catalog, derived from the first raw row of that product_id: its *)
(* name, category and price; an invalid price of the first row is absent.  *)
C5_FirstRowWins ==
    CatalogComputed =>
        /\ \A j \in 1..Len(frames.catalog) :
               frames.catalog[j].product_id \in RawProductIds
        /\ \A pid \in RawProductIds :
               LET first == FirstRawProduct(pid)
                   n == to_numeric(first.price)
               IN  /\ Cardinality(CatalogRowsOf(pid)) = 1
                   /\ \A j \in CatalogRowsOf(pid) :
                          /\ frames.catalog[j].product_name =
                                 (IF first.product_name = NaN
                                  THEN <<"Unknown Product">>
                                  ELSE first.product_name)
                          /\ frames.catalog[j].category = first.category
                          /\ frames.catalog[j].price =
                                 (IF n # NaN /\ n[1] >= 0 THEN n ELSE NaN)

C5_Witness ==
    /\ CatalogComputed
    /\ Len(prodFile) = 2
    /\ prodFile[1].product_id = prodFile[2].product_id
    /\ prodFile[1].price = "abc"
    /\ prodFile[2].price = "7"
    /\ prodFile[1].category # prodFile[2].category
    /\ Len(frames.catalog) = 1
    /\ frames.catalog[1].price = NaN

(* C6: in every row of the cleaned catalog the price is absent or >= 0; a  *)
(* negative or non-numeric raw price is absent, never 0; the product name  *)
(* is never absent.                                                        *)
C6_PriceValidNameSet ==
    CatalogComputed =>
        \A j \in 1..Len(frames.catalog) :
            LET row == frames.catalog[j]
            IN  /\ isna(row.price) \/ row.price[1] >= 0
                /\ FirstRawProduct(row.product_id).price \in {"abc", "-5"}
                       => isna(row.price)
                /\ ~isna(row.product_name)

C6_Witness ==
    /\ CatalogComputed
    /\ \E i \in 1..Len(prodFile) : prodFile[i].price = "-5"
    /\ \E i \in 1..Len(prodFile) : prodFile[i].product_name = NaN
    /\ \E j \in 1..Len(frames.catalog) :
           /\ FirstRawProduct(frames.catalog[j].product_id).price = "-5"
           /\ isna(frames.catalog[j].price)
           /\ frames.catalog[j].product_name = <<"Unknown Product">>

(* the (date, transaction_id, customer_id, product_id) of a raw row *)
RawCombination(r) == <<date_of(r.timestamp), r.transaction_id, r.customer_id, r.product_id>>

RawRowsOf(c) == SelectSeq(txFile, LAMBDA r : RawCombination(r) = c)

SaleRowsOf(c) ==
    {i \in 1..Len(db["sale"].rows) :
        LET row == db["sale"].rows[i]
        IN  <<row.date, row.transaction_id, row.customer_id, row.product_id>> = c}

(* C7 (as claimed): once the sale table is written, it has exactly one row *)
(* for each (date, transaction_id, customer_id, product_id) of the raw     *)
(* transactions; its quantity is the sum of the quantities and its         *)
(* total_sales the sum of quantity x price of the raw rows of that         *)
(* combination (a raw row without a price adds nothing).                   *)
C7_OneFactRowPerCombination ==
    db["sale"].gen = 1 =>
        \A c \in {RawCombination(txFile[i]) : i \in 1..Len(txFile)} :
            LET raw == RawRowsOf(c)
                priced == SelectSeq(raw, LAMBDA r : r.price # NaN)
            IN  /\ Cardinality(SaleRowsOf(c)) = 1
                /\ \A i \in SaleRowsOf(c) :
                       /\ db["sale"].rows[i].quantity =
                              SumSeq([n \in 1..Len(raw) |-> raw[n].quantity])
                       /\ db["sale"].rows[i].total_sales =
                              SumSeq([n \in 1..Len(priced) |->
                                         priced[n].quantity * priced[n].price[1]])

(* C8: once the product table is written, it has exactly one row for every *)
(* product_id of the transactions or of the cleaned catalog, and no other. *)
C8_OneProductRowPerId ==
    db["product"].gen = 1 =>
        LET ids == {txFile[i].product_id : i \in 1..Len(txFile)}
                       \cup {frames.catalog[j].product_id : j \in 1..Len(frames.catalog)}
            rows == db["product"].rows
        IN  /\ \A i \in 1..Len(rows) : rows[i].product_id \in ids
            /\ \A id \in ids :
                   Cardinality({i \in 1..Len(rows) : rows[i].product_id = id}) = 1

C8_Witness ==
    /\ db["product"].gen = 1
    /\ \E i, j \in 1..Len(frames.joined) :
           /\ frames.joined[i].product_id = frames.joined[j].product_id
           /\ frames.joined[i].price # frames.joined[j].price
    /\ \E i \in 1..Len(frames.joined) : isna(frames.joined[i].transaction_id)
    /\ Len(db["product"].rows) = 2

(* C9 (as claimed): no source file is read after a table was written *)
C9_NoReadAfterWrite ==
    \A i, j \in 1..Len(log) : (i < j /\ IsWrite(log[i])) => ~IsRead(log[j])

(* C10 (as claimed): once the sale table is written, the price of each of  *)
(* its rows is the price of the first raw row of its combination, also     *)
(* when that price is absent.                                              *)
C10_PriceOfFirstRow ==
    db["sale"].gen = 1 =>
        \A i \in 1..Len(db["sale"].rows) :
            LET row == db["sale"].rows[i]
                raw == RawRowsOf(<<row.date, row.transaction_id, row.customer_id,
                                   row.product_id>>)
            IN  row.price = raw[1].price

====
